---- MODULE Spec2Model ----
(***************************************************************************)
(* A model of persistent.h: values of a type T overlaid on a memory-mapped *)
(* file.  The model follows one path P of the file system and one process  *)
(* at a time that holds up to two handles (object<T> or array<T>) on it.   *)
(* A second path holds a file of any size_t length, opened in discovery    *)
(* mode; a third is opened by two processes at once, one system call at a  *)
(* time.                                                                   *)
(*                                                                         *)
(* A byte is one of 0 (zero), 1 and 2 (the values T's constructor and the  *)
(* caller's stores produce) and 3 (a stale non-zero byte).  T is a struct  *)
(* of SizeofT one-byte fields; T(a) sets every field to a.                 *)
(***************************************************************************)
EXTENDS Integers, Sequences, FiniteSets, TLC

\* ---------------------------------------------------------------- bounds
MaxCount == 2                     \* largest element count passed to array<T>
MaxOps == 3                       \* operations in one history
MaxFaults == 1                    \* environment faults in one history

\* ------------------------------------------------------------- the type T
SizeofT == 2                      \* sizeof(T)
Bytes == 0..3
Args == {1, 2}                    \* constructor arguments / stored values
GarbageBytes == {0, 3}            \* what an uninitialized char may hold
MaxBytes == MaxCount * SizeofT
Counts == 0..MaxCount
Handles == {1, 2}

T(a) == [j \in 1..SizeofT |-> a]  \* the bytes T(args...) leaves behind

Min(a, b) == IF a < b THEN a ELSE b

\* a path of the file system: absent, or a regular file holding bytes
NoFile == [exists |-> FALSE, bytes |-> <<>>]

\* ------------------------------------------------------------- addresses
NULL == 0
MAP_FAILED == 0 - 1               \* (void*)-1, what ::mmap returns on failure
MapIds == {1, 2}                  \* the addresses ::mmap may hand out

\* -------------------------------------------------------- the environment
(* What the operating system does during one constructor call:             *)
(*   sys   - the primitive that reports an error ("ok": none does);        *)
(*   buf   - the bytes ::write transfers from the uninitialized buffer     *)
(*           (zero-filled or stale memory); it may transfer fewer than     *)
(*           asked without reporting an error;                             *)
(*   mapok - whether ::mmap succeeds.                                      *)
need(f, n) == IF n # 0 /\ Len(f.bytes) < n THEN n - Len(f.bytes) ELSE 0

Transfers(k) == IF k = 0 THEN { <<>> }
                ELSE { [x \in 1..w |-> g] : w \in 1..k, g \in GarbageBytes }

Envs(f, n) ==
    { [sys |-> "ok", buf |-> b, mapok |-> m] :
          b \in Transfers(need(f, n)), m \in BOOLEAN }
    \cup { [sys |-> s, buf |-> <<>>, mapok |-> TRUE] :
          s \in {"open", "lseek"} \cup (IF need(f, n) > 0 THEN {"write"} ELSE {}) }

\* --------------------------------------------------------- size_t, unsigned
(* A size_t is 64 bits wide and an unsigned 32: wider than the integers    *)
(* TLC evaluates, so a size_t is kept as four 16-bit limbs, least          *)
(* significant first.                                                      *)
Limb == 256 * 256
ToSizeT(n) == << n % Limb, n \div Limb, 0, 0 >>          \* for n < 2^31
FromSizeT(s) == s[1] + Limb * s[2]                       \* for s < 2^31

\* size_t / d, for a small divisor d (long division, most significant first)
DivSizeT(s, d) ==
    LET r4 == s[4] % d
        r3 == (r4 * Limb + s[3]) % d
        r2 == (r3 * Limb + s[2]) % d
    IN  << (r2 * Limb + s[1]) \div d,
           (r3 * Limb + s[2]) \div d,
           (r4 * Limb + s[3]) \div d,
           s[4] \div d >>

ZeroSizeT == << 0, 0, 0, 0 >>
LessSizeT(a, b) ==
    \E k \in 1..4 : a[k] < b[k] /\ \A x \in (k + 1)..4 : a[x] = b[x]
MinSizeT(a, b) == IF LessSizeT(b, a) THEN b ELSE a

\* unsigned alloc::size() const { return _size; }: the low 32 bits of _size
alloc_size(s) == << s[1], s[2], 0, 0 >>

\* array(file): _size{alloc::size()/sizeof(T)}
array_discover_count(s) == DivSizeT(alloc_size(s), SizeofT)

\* ------------------------------------------------------------ BackingFile
NoError == ""

\* what resize returns for a file of length off: n = 0 stands for n = off
resize_ret(off, n) ==
    LET tgt == IF n = ZeroSizeT THEN off ELSE n
    IN  MinSizeT(off, tgt)

\* (mutant) the file is cut down to a smaller requested size (ftruncate)
resize_truncates(f, n, env) ==
    LET off == Len(f.bytes)
    IN  IF env.sys = "lseek" \/ (n # 0 /\ off < n /\ env.sys = "write")
        THEN [err |-> "persistent::resize", file |-> f, ret |-> 0]
        ELSE [err  |-> NoError,
              file |-> IF n # 0 /\ off < n
                       THEN [f EXCEPT !.bytes = @ \o env.buf]
                       ELSE IF n # 0 THEN [f EXCEPT !.bytes = SubSeq(@, 1, n)]
                       ELSE f,
              ret  |-> IF n = 0 THEN off ELSE Min(off, n)]

\* resize(fd, n): f is the file behind fd
resize(f, n, env) ==
    LET off == Len(f.bytes)
    IN  IF env.sys = "lseek"
        THEN [err |-> "persistent::resize", file |-> f, ret |-> 0]
        ELSE IF n # 0 /\ off < n /\ env.sys = "write"
        THEN [err |-> "persistent::resize", file |-> f, ret |-> 0]
        ELSE [err  |-> NoError,
              file |-> IF n # 0 /\ off < n
                       THEN [f EXCEPT !.bytes = @ \o env.buf]
                       ELSE f,
              ret  |-> FromSizeT(resize_ret(ToSizeT(off), ToSizeT(n)))]

\* (mutant) O_CREAT whatever n is
open_always_creates(f, n, env) ==
    LET r == resize([exists |-> TRUE, bytes |-> f.bytes], n, env)
    IN  IF env.sys = "open"
        THEN [err |-> "persistent: P", file |-> f, ret |-> 0, fd |-> "none"]
        ELSE [err |-> r.err, file |-> r.file, ret |-> r.ret,
              fd |-> IF r.err = NoError THEN "returned" ELSE "open"]

\* open(file, n): O_CREAT|O_EXCL when n # 0, else (or when that fails) O_RDWR.
\* fd: the descriptor when open exits: "none" (no ::open succeeded), "returned"
\* (handed to the caller in the pair), or "open" (resize threw while open held
\* it in a plain int: nothing closes it)
open(f, n, env) ==
    LET r == resize([exists |-> TRUE, bytes |-> f.bytes], n, env)
    IN  IF env.sys = "open" \/ (n = 0 /\ ~f.exists)
        THEN [err |-> "persistent: P", file |-> f, ret |-> 0, fd |-> "none"]
        ELSE [err |-> r.err, file |-> r.file, ret |-> r.ret,
              fd |-> IF r.err = NoError THEN "returned" ELSE "open"]

\* ----------------------------------------------------------- MemoryMapper
\* ::mmap(0, n, ...): fails on a zero length and whenever the system says so
sys_mmap(n, env, addr) == IF n = 0 \/ ~env.mapok THEN MAP_FAILED ELSE addr

\* persistent::mmap(n, fd): throws only on a null result
mmap(n, env, addr) ==
    LET m == sys_mmap(n, env, addr)
    IN  [err |-> IF m = NULL THEN "mmap" ELSE NoError, map |-> m]

\* ------------------------------------------- PersistentMemory / Region
\* try { ... } catch(std::exception const& x) { throw error(file)<<": "<<x.what(); }
error(what) ==
    CASE what = "persistent: P"      -> "P: persistent: P"
      [] what = "persistent::resize" -> "P: persistent::resize"
      [] what = "mmap"               -> "P: mmap"
      [] OTHER                       -> what

\* fd_guard fd; std::tie(fd, _init) = open(...): the guard takes the descriptor
\* open returned and closes it when the constructor's try block is left; a
\* descriptor that never reached the guard stays as it is
fd_guard(fd) == IF fd = "returned" THEN "closed" ELSE fd

\* memory<SIZE>::memory(file), SIZE = sizeof(T)
memory_ctor(f, env, addr) ==
    LET o == open(f, SizeofT, env)
        m == mmap(SizeofT, env, addr)
    IN  IF o.err # NoError
        THEN [err |-> error(o.err), file |-> o.file, map |-> NULL, init |-> 0,
              size |-> SizeofT, fd |-> fd_guard(o.fd)]
        ELSE IF m.err # NoError
        THEN [err |-> error(m.err), file |-> o.file, map |-> NULL, init |-> 0,
              size |-> SizeofT, fd |-> fd_guard(o.fd)]
        ELSE [err |-> NoError, file |-> o.file, map |-> m.map, init |-> o.ret,
              size |-> SizeofT, fd |-> fd_guard(o.fd)]

\* alloc::alloc(n, file)
alloc_ctor(n, f, env, addr) ==
    LET o == open(f, n, env)
        m == mmap(n, env, addr)
    IN  IF o.err # NoError
        THEN [err |-> error(o.err), file |-> o.file, map |-> NULL, init |-> 0,
              size |-> n, fd |-> fd_guard(o.fd)]
        ELSE IF m.err # NoError
        THEN [err |-> error(m.err), file |-> o.file, map |-> NULL, init |-> 0,
              size |-> n, fd |-> fd_guard(o.fd)]
        ELSE [err |-> NoError, file |-> o.file, map |-> m.map, init |-> o.ret,
              size |-> n, fd |-> fd_guard(o.fd)]

\* alloc::alloc(file)
alloc_discover(f, env, addr) ==
    LET o == open(f, 0, env)
        m == mmap(o.ret, env, addr)
    IN  IF o.err # NoError
        THEN [err |-> error(o.err), file |-> o.file, map |-> NULL, init |-> 0,
              size |-> 0, fd |-> fd_guard(o.fd)]
        ELSE IF m.err # NoError
        THEN [err |-> error(m.err), file |-> o.file, map |-> NULL, init |-> 0,
              size |-> o.ret, fd |-> fd_guard(o.fd)]
        ELSE [err |-> NoError, file |-> o.file, map |-> m.map, init |-> o.ret,
              size |-> o.ret, fd |-> fd_guard(o.fd)]

\* ------------------------------------------------------------------ state
VARIABLES
    file,     \* the path P: [exists, bytes]
    page,     \* bytes of the mapped page that lie beyond the end of the file
    maps,     \* per address: whether a mapping lives there, and its length
    h,        \* the handles of the running process
    shadow,   \* history: per offset, the byte last constructed or stored there
    ctors,    \* history: per element index, placement-constructions (0, 1, many)
    born,     \* history: how the file came to hold its value (see Born)
    last,     \* history: the operation that led to this state
    ops,      \* history: the number of operations so far
    faults,   \* history: the number of environment faults so far
    big,      \* a second path, holding a file too large to follow byte by byte
    race      \* a third path, opened by two processes at the same time

vars == << file, page, maps, h, shadow, ctors, born, last, ops, faults, big, race >>

Unset == 0 - 1
Offsets == 1..MaxBytes
Elems == 0..(MaxCount - 1)
ElemOf(k) == (k - 1) \div SizeofT
FieldOf(k) == ((k - 1) % SizeofT) + 1

NoHandle == [kind |-> "none", map |-> NULL, init |-> 0, size |-> 0, n |-> 0, po |-> NULL]
NoMapping == [live |-> FALSE, len |-> 0]
ZeroPage == [k \in Offsets |-> 0]

\* what a load through a live mapping sees at offset k
ViewOf(f, pg, k) == IF k <= Len(f.bytes) THEN f.bytes[k] ELSE pg[k]
ViewElemOf(f, pg, e) == [j \in 1..SizeofT |-> ViewOf(f, pg, e * SizeofT + j)]
ViewElem(e) == ViewElemOf(file, page, e)
ShadowElem(e) == [j \in 1..SizeofT |-> shadow[e * SizeofT + j]]

\* a store of val into the elements S through a live mapping: offsets inside
\* the file reach the file, offsets beyond its end stay in the page
StoreFile(f, S, val) ==
    [f EXCEPT !.bytes = [k \in 1..Len(f.bytes) |->
        IF ElemOf(k) \in S THEN val[FieldOf(k)] ELSE f.bytes[k]]]
StorePage(f, pg, S, val) ==
    [k \in Offsets |->
        IF k <= Len(f.bytes) THEN 0
        ELSE IF ElemOf(k) \in S THEN val[FieldOf(k)] ELSE pg[k]]
StoreShadow(sh, S, val) ==
    [k \in Offsets |-> IF ElemOf(k) \in S THEN val[FieldOf(k)] ELSE sh[k]]
Count(c, S) == [e \in Elems |-> IF e \in S THEN Min(c[e] + 1, 2) ELSE c[e]]

\* ::mmap succeeded at address m: the mapping lives; ::munmap(m, len) ends it
Mapped(mp, m, len) ==
    IF m \in MapIds THEN [mp EXCEPT ![m] = [live |-> TRUE, len |-> len]] ELSE mp
Unmapped(mp, m) ==
    IF m \in MapIds THEN [mp EXCEPT ![m] = NoMapping] ELSE mp
\* the address ::mmap hands out: the lowest one free
FreeAddr(mp) == CHOOSE m \in MapIds : ~mp[m].live /\ \A x \in MapIds : x < m => mp[x].live
NoneLive(mp) == \A m \in MapIds : ~mp[m].live
\* the page beyond the end of the file is gone with the last mapping
PageAfter(mp, pg) == IF NoneLive(mp) THEN ZeroPage ELSE pg

\* a load or store through pointer p at offset k reaches mapped, backed memory
Pages(len) == (len + 4095) \div 4096
Reaches(mp, f, p, k) ==
    /\ p \in MapIds
    /\ mp[p].live
    /\ (k - 1) \div 4096 < Min(Pages(mp[p].len), Pages(Len(f.bytes)))

\* born: the open that created the file and returned, and the largest element
\* count a sized-mode open has since returned with
NotBorn == [by |-> "none", n |-> 0]

NoEvent ==
    [op |-> "init", hd |-> 0, src |-> 0, outcome |-> "ok", err |-> NoError,
     n |-> 0, arg |-> 0, init |-> 0, built |-> {}, fresh |-> FALSE,
     quiet |-> FALSE, nominal |-> FALSE, mapfail |-> FALSE, unmap |-> NULL,
     before |-> 0, fd |-> "none"]

\* the second path: a file of len bytes and, once opened in discovery mode, the
\* fields of the array<T> handle on it and the placement-constructions run
NoBig == [len |-> ZeroSizeT, st |-> "closed", map |-> NULL, size |-> ZeroSizeT,
          init |-> ZeroSizeT, maplen |-> ZeroSizeT, n |-> ZeroSizeT, built |-> 0]

\* the third path: no file yet, and two processes about to open it; per process
\* its position in the constructor, what it asked for, the length its
\* seek-to-end found, its initialized() and the elements it has constructed
Procs == {1, 2}
NoRace ==
    [file  |-> NoFile,
     pc    |-> [p \in Procs |-> "start"],
     kind  |-> [p \in Procs |-> "none"],
     n     |-> [p \in Procs |-> 0],
     arg   |-> [p \in Procs |-> 0],
     off   |-> [p \in Procs |-> 0],
     init  |-> [p \in Procs |-> 0],
     built |-> [p \in Procs |-> {}],
     ctors |-> [e \in Elems |-> 0]]

Small ==
    /\ file = NoFile
    /\ page = ZeroPage
    /\ maps = [m \in MapIds |-> NoMapping]
    /\ h = [i \in Handles |-> NoHandle]
    /\ shadow = [k \in Offsets |-> Unset]
    /\ ctors = [e \in Elems |-> 0]
    /\ born = NotBorn
    /\ last = NoEvent
    /\ ops = 0
    /\ faults = 0
    /\ race = NoRace

Init == Small /\ big = NoBig

\* ----------------------------------------------------------- constructors
(* The tail shared by the three constructors.  r is what the base class    *)
(* constructor (memory or alloc) produced, S the elements the body is to   *)
(* placement-construct, in ascending order, with T(a).  The body returns   *)
(* (how = "return"), or T's constructor throws at element at, or the       *)
(* process dies there.  hd is the handle the constructor leaves on return. *)
Built(S, how, at) == IF how = "return" THEN S ELSE { e \in S : e < at }

Stops(S) == { [how |-> "return", at |-> 0] }
            \cup { [how |-> w, at |-> e] : w \in {"throw", "crash"}, e \in S }

Constructed(i, r, S, a, stop, hd, ev) ==
    LET D   == Built(S, stop.how, stop.at)
        mp  == Mapped(maps, r.map, r.size)
        pg  == StorePage(r.file, page, {}, T(a))
        e0  == [ev EXCEPT !.init = r.init, !.mapfail = (r.map = MAP_FAILED),
                          !.fd = r.fd]
    IN  IF r.err # NoError
        THEN /\ file' = r.file
             /\ page' = pg
             /\ last' = [ev EXCEPT !.outcome = "error", !.err = r.err, !.fd = r.fd]
             /\ UNCHANGED << maps, h, shadow, ctors, born >>
        ELSE IF D # {} /\ \E e \in D : ~Reaches(mp, r.file, r.map, e * SizeofT + 1)
        THEN \* placement-new through a pointer to no memory: the process dies
             /\ file' = r.file
             /\ page' = ZeroPage
             /\ maps' = [m \in MapIds |-> NoMapping]
             /\ h' = [j \in Handles |-> NoHandle]
             /\ last' = [e0 EXCEPT !.outcome = "fault"]
             /\ UNCHANGED << shadow, ctors, born >>
        ELSE /\ file' = StoreFile(r.file, D, T(a))
             /\ shadow' = StoreShadow(shadow, D, T(a))
             /\ ctors' = Count(ctors, D)
             /\ CASE stop.how = "return" ->
                       /\ maps' = mp
                       /\ page' = StorePage(r.file, pg, D, T(a))
                       /\ h' = [h EXCEPT ![i] = hd]
                       /\ last' = [e0 EXCEPT !.built = D]
                       /\ born' = IF ~file.exists
                                  THEN [by |-> hd.kind, n |-> hd.n]
                                  ELSE IF hd.kind = "array" /\ ev.op = "array"
                                  THEN [born EXCEPT !.n = IF hd.n > @ THEN hd.n ELSE @]
                                  ELSE born
                  [] stop.how = "throw" ->
                       \* the base class destructor unmaps
                       /\ maps' = maps
                       /\ page' = PageAfter(maps, StorePage(r.file, pg, D, T(a)))
                       /\ h' = h
                       /\ last' = [e0 EXCEPT !.built = D, !.outcome = "throw",
                                             !.unmap = r.map]
                       /\ born' = born
                  [] stop.how = "crash" ->
                       /\ maps' = [m \in MapIds |-> NoMapping]
                       /\ page' = ZeroPage
                       /\ h' = [j \in Handles |-> NoHandle]
                       /\ last' = [e0 EXCEPT !.built = D, !.outcome = "crash"]
                       /\ born' = born

\* the faults of one constructor call: a primitive reporting an error, a
\* short write, a failing ::mmap, a throwing T(args...) or the process dying
Faults(f, n, env, stop) ==
    (IF env.sys # "ok" THEN 1 ELSE 0) + (IF env.mapok THEN 0 ELSE 1)
    + (IF Len(env.buf) # need(f, n) /\ env.sys = "ok" THEN 1 ELSE 0)
    + (IF stop.how # "return" THEN 1 ELSE 0)

Nominal(f, n, env, stop) == Faults(f, n, env, stop) = 0

\* a new handle takes the lowest free slot
FreeSlot(i) == h[i].kind = "none" /\ \A j \in Handles : j < i => h[j].kind # "none"

Event(op, i, n, a, nom) ==
    [NoEvent EXCEPT !.op = op, !.hd = i, !.n = n, !.arg = a,
                    !.fresh = ~file.exists, !.nominal = nom,
                    !.quiet = NoneLive(maps), !.before = born.n]

\* object<T>::object(file, args...)
object_todo(init) == IF init < SizeofT THEN {0} ELSE {}

ObjectOpen(i, a, env, stop) ==
    LET r == memory_ctor(file, env, FreeAddr(maps))
        S == object_todo(r.init)
        hd == [kind |-> "object", map |-> r.map, init |-> r.init,
               size |-> r.size, n |-> 0, po |-> r.map]
    IN  /\ FreeSlot(i)
        /\ \E m \in MapIds : ~maps[m].live
        /\ env \in Envs(file, SizeofT)
        /\ faults + Faults(file, SizeofT, env, stop) <= MaxFaults
        /\ faults' = faults + Faults(file, SizeofT, env, stop)
        /\ stop \in (IF r.err = NoError THEN Stops(S) ELSE Stops({}))
        /\ Constructed(i, r, S, a, stop, hd,
                       Event("object", i, 1, a, Nominal(file, SizeofT, env, stop)))

\* array<T>::array(n, file, args...)
array_todo(init, n) == { e \in 0..(MaxCount - 1) : init \div SizeofT <= e /\ e < n }

ArrayOpen(i, n, a, env, stop) ==
    LET r == alloc_ctor(n * SizeofT, file, env, FreeAddr(maps))
        S == array_todo(r.init, n)
        hd == [kind |-> "array", map |-> r.map, init |-> r.init,
               size |-> r.size, n |-> n, po |-> r.map]
    IN  /\ FreeSlot(i)
        /\ \E m \in MapIds : ~maps[m].live
        /\ env \in Envs(file, n * SizeofT)
        /\ faults + Faults(file, n * SizeofT, env, stop) <= MaxFaults
        /\ faults' = faults + Faults(file, n * SizeofT, env, stop)
        /\ stop \in (IF r.err = NoError THEN Stops(S) ELSE Stops({}))
        /\ Constructed(i, r, S, a, stop, hd,
                       Event("array", i, n, a, Nominal(file, n * SizeofT, env, stop)))

\* array<T>::array(file)
ArrayDiscover(i, env) ==
    LET r == alloc_discover(file, env, FreeAddr(maps))
        hd == [kind |-> "array", map |-> r.map, init |-> r.init,
               size |-> r.size,
               n |-> FromSizeT(array_discover_count(ToSizeT(r.size))),
               po |-> r.map]
        stop == [how |-> "return", at |-> 0]
    IN  /\ FreeSlot(i)
        /\ \E m \in MapIds : ~maps[m].live
        /\ env \in Envs(file, 0)
        /\ faults + Faults(file, 0, env, stop) <= MaxFaults
        /\ faults' = faults + Faults(file, 0, env, stop)
        /\ Constructed(i, r, {}, 0, stop, hd,
                       Event("discover", i, 0, 0, Nominal(file, 0, env, stop)))

\* ------------------------------------------------------------------ moves
\* memory(memory&& m) : _map{nullptr}, _init{0} { swap(_map, m._map); swap(_init, m._init); }
memory_move(m) ==
    [dst |-> [m EXCEPT !.map = m.map, !.init = m.init],
     src |-> [m EXCEPT !.map = NULL, !.init = 0]]

\* object(object<T>&&) = default: the base is moved, _po is copied
object_move(m) ==
    [dst |-> [memory_move(m).dst EXCEPT !.po = m.po],
     src |-> [memory_move(m).src EXCEPT !.po = m.po]]

\* (mutant) the members are copied, the source keeps its own
alloc_move_keeps(m) == [dst |-> m, src |-> m]

\* alloc(alloc&& m) : _map{nullptr}, _init{0}, _size{0} { swap each with m's }
alloc_move(m) ==
    [dst |-> [m EXCEPT !.map = m.map, !.init = m.init, !.size = m.size],
     src |-> [m EXCEPT !.map = NULL, !.init = 0, !.size = 0]]

\* alloc& operator=(alloc&& m) { if(&m != this) { swap each with m's } }
alloc_move_assign(t, m, same) ==
    IF same THEN [dst |-> t, src |-> m]
    ELSE [dst |-> [t EXCEPT !.map = m.map, !.init = m.init, !.size = m.size],
          src |-> [m EXCEPT !.map = t.map, !.init = t.init, !.size = t.size]]

\* array(array<T>&&) = default: the base is moved, _size and _po are copied
array_move(m) ==
    [dst |-> [alloc_move(m).dst EXCEPT !.n = m.n, !.po = m.po],
     src |-> [alloc_move(m).src EXCEPT !.n = m.n, !.po = m.po]]

\* array& operator=(array<T>&&) = default
array_move_assign(t, m, same) ==
    [dst |-> [alloc_move_assign(t, m, same).dst EXCEPT !.n = m.n, !.po = m.po],
     src |-> [alloc_move_assign(t, m, same).src EXCEPT !.n = m.n, !.po = m.po]]

MoveEvent(op, i, j) == [NoEvent EXCEPT !.op = op, !.hd = i, !.src = j]

\* object<T> b(std::move(a)): handle i is built from handle j
ObjectMove(i, j) ==
    /\ i # j
    /\ h[i].kind = "none"
    /\ h[j].kind = "object"
    /\ h' = [h EXCEPT ![i] = object_move(h[j]).dst, ![j] = object_move(h[j]).src]
    /\ last' = MoveEvent("object_move", i, j)
    /\ UNCHANGED << file, page, maps, shadow, ctors, born, faults >>

\* array<T> b(std::move(a))
ArrayMove(i, j) ==
    /\ i # j
    /\ h[i].kind = "none"
    /\ h[j].kind = "array"
    /\ h' = [h EXCEPT ![i] = array_move(h[j]).dst, ![j] = array_move(h[j]).src]
    /\ last' = MoveEvent("array_move", i, j)
    /\ UNCHANGED << file, page, maps, shadow, ctors, born, faults >>

\* b = std::move(a), b and a arrays (i = j: a self-assignment)
ArrayMoveAssign(i, j) ==
    /\ h[i].kind = "array"
    /\ h[j].kind = "array"
    /\ h' = [h EXCEPT ![j] = array_move_assign(h[i], h[j], i = j).src,
                      ![i] = array_move_assign(h[i], h[j], i = j).dst]
    /\ last' = MoveEvent("array_move_assign", i, j)
    /\ UNCHANGED << file, page, maps, shadow, ctors, born, faults >>

\* --------------------------------------------------------------- teardown
\* (mutant) _po->~T() runs and clears the value
object_dtor_destroys(f, hd) == StoreFile(f, {0}, T(0))

\* ~object() and ~array(): the bodies leave the bytes of T alone
object_dtor(f, hd) == f
array_dtor(f, hd) == f

\* ~memory() { if(_map) ::munmap(_map, SIZE); }, ~alloc() alike with _size:
\* the address handed to ::munmap, NULL when there is no call
dtor_unmap(hd) == IF hd.map # NULL THEN hd.map ELSE NULL

Destroy(i) ==
    /\ h[i].kind # "none"
    /\ file' = IF h[i].kind = "object" THEN object_dtor(file, h[i])
                                       ELSE array_dtor(file, h[i])
    /\ maps' = Unmapped(maps, dtor_unmap(h[i]))
    /\ page' = PageAfter(maps', page)
    /\ h' = [h EXCEPT ![i] = NoHandle]
    /\ last' = [NoEvent EXCEPT !.op = "destroy", !.hd = i,
                               !.unmap = dtor_unmap(h[i])]
    /\ UNCHANGED << shadow, ctors, born, faults >>

\* ----------------------------------------------------------------- access
\* the process dies on a load or store through a pointer to no memory
Dies(ev) ==
    /\ maps' = [m \in MapIds |-> NoMapping]
    /\ page' = ZeroPage
    /\ h' = [j \in Handles |-> NoHandle]
    /\ last' = [ev EXCEPT !.outcome = "fault"]
    /\ UNCHANGED << file, shadow, ctors, born, faults >>

\* T& array::operator[](n): "throw" past the end, else the place of _po[n]
array_index(hd, e) == IF e >= hd.n THEN "throw" ELSE "element"

\* a[e] = T(v), or for an object *p = T(v) (e = 0)
Store(i, e, v) ==
    LET ev == [NoEvent EXCEPT !.op = "store"]
    IN  /\ h[i].kind # "none"
        /\ h[i].kind = "object" => e = 0
        /\ h[i].kind = "array" => array_index(h[i], e) = "element"
        /\ IF Reaches(maps, file, h[i].po, e * SizeofT + 1)
           THEN /\ file' = StoreFile(file, {e}, T(v))
                /\ page' = StorePage(file, page, {e}, T(v))
                /\ shadow' = StoreShadow(shadow, {e}, T(v))
                /\ last' = ev
                /\ UNCHANGED << maps, h, ctors, born, faults >>
           ELSE Dies(ev)

\* the process ends without running destructors; a later process starts over
Crash ==
    /\ \E i \in Handles : h[i].kind # "none"
    /\ faults < MaxFaults
    /\ maps' = [m \in MapIds |-> NoMapping]
    /\ page' = ZeroPage
    /\ h' = [j \in Handles |-> NoHandle]
    /\ last' = [NoEvent EXCEPT !.op = "crash", !.outcome = "crash"]
    /\ faults' = faults + 1
    /\ UNCHANGED << file, shadow, ctors, born >>

\* ------------------------------------------------------------------- spec
AllStops == Stops(Elems)

\* every operation counts towards the length of the history
Step ==
    /\ ops < MaxOps
    /\ ops' = ops + 1
    /\ UNCHANGED << big, race >>

Next ==
    \/ \E i \in Handles, a \in Args :
         \E env \in Envs(file, SizeofT), stop \in AllStops :
            Step /\ ObjectOpen(i, a, env, stop)
    \/ \E i \in Handles, n \in Counts, a \in Args :
         \E env \in Envs(file, n * SizeofT), stop \in AllStops :
            Step /\ ArrayOpen(i, n, a, env, stop)
    \/ \E i \in Handles :
         \E env \in Envs(file, 0) : Step /\ ArrayDiscover(i, env)
    \/ \E i, j \in Handles : Step /\ ObjectMove(i, j)
    \/ \E i, j \in Handles : Step /\ ArrayMove(i, j)
    \/ \E i, j \in Handles : Step /\ ArrayMoveAssign(i, j)
    \/ \E i \in Handles : Step /\ Destroy(i)
    \/ \E i \in Handles, e \in Elems, v \in Args : Step /\ Store(i, e, v)
    \/ Step /\ Crash

Spec == Init /\ [][Next]_vars

\* ------------------------------------------- discovery of a large file
(* array<T>::array(file) on an existing file whose length is any size_t:   *)
(* open(file, 0) and resize(fd, 0) give its length, alloc maps that many   *)
(* bytes, array derives its element count.                                 *)
BigLengths ==
    { << a, b, c, d >> : a \in {0, 1, 2, 3, 65535}, b \in {0, 1, 65535},
                         c \in {0, 1, 2}, d \in {0, 1} }

alloc_discover_big(len, mapok) ==
    LET sz == resize_ret(len, ZeroSizeT)
    IN  [size |-> sz, maplen |-> sz, init |-> sz,
         map |-> IF sz = ZeroSizeT \/ ~mapok THEN MAP_FAILED ELSE 1]

DiscoverBig(mapok) ==
    LET r == alloc_discover_big(big.len, mapok)
    IN  /\ big.st = "closed"
        /\ big' = [big EXCEPT !.st = "open", !.map = r.map, !.size = r.size,
                              !.init = r.init, !.maplen = r.maplen,
                              !.n = array_discover_count(r.size), !.built = 0]
        /\ UNCHANGED << file, page, maps, h, shadow, ctors, born, last, ops, faults, race >>

\* ~array(), ~alloc()
CloseBig ==
    /\ big.st = "open"
    /\ big' = [NoBig EXCEPT !.len = big.len]
    /\ UNCHANGED << file, page, maps, h, shadow, ctors, born, last, ops, faults, race >>

InitBig == Small /\ big \in { [NoBig EXCEPT !.len = l] : l \in BigLengths }

NextBig == (\E mapok \in BOOLEAN : DiscoverBig(mapok)) \/ CloseBig

SpecBig == InitBig /\ [][NextBig]_vars

\* ------------------------------------- two processes opening one fresh path
(* Two processes run a sized-mode constructor (object<T>, or array<T> with  *)
(* a count of at least 1) on the same path, one system call at a time:      *)
(*   start  -> opened   ::open(O_CREAT|O_EXCL), else ::open(O_RDWR)         *)
(*   opened -> sought   ::lseek(fd, 0, SEEK_END)                            *)
(*   sought -> sized    ::write of the missing bytes at the offset found,   *)
(*                      ::lseek(fd, 0, SEEK_SET), resize returns            *)
(*   sized  -> mapped   ::mmap                                              *)
(*   mapped -> done     placement-construction, one element per step        *)
(* Every system call succeeds and every ::write is complete.                *)

\* (mutant) without the second ::open the loser of the creation fails
race_open_exclusive(exists, n) ==
    IF n # 0 /\ ~exists THEN "created" ELSE "error"

\* open(file, n), the ::open calls: which of them yields the descriptor
race_open(exists, n) ==
    IF n # 0 /\ ~exists THEN "created"
    ELSE IF exists THEN "opened"
    ELSE "error"

\* ::write(fd, buf, n) at file offset off: overwrites, and extends the file
WriteAt(bytes, off, buf) ==
    LET end == off + Len(buf)
        len == IF Len(bytes) < end THEN end ELSE Len(bytes)
    IN  [k \in 1..len |-> IF off < k /\ k <= end THEN buf[k - off] ELSE bytes[k]]

race_size(p) == IF race.kind[p] = "object" THEN SizeofT ELSE race.n[p] * SizeofT

race_todo(p) == IF race.kind[p] = "object" THEN object_todo(race.init[p])
                ELSE array_todo(race.init[p], race.n[p])

RaceFrame == UNCHANGED << file, page, maps, h, shadow, ctors, born, last, ops, faults, big >>

RaceOpen(p, kind, n, a) ==
    LET o == race_open(race.file.exists, n * SizeofT)
    IN  /\ race.pc[p] = "start"
        /\ kind = "object" => n = 1
        /\ race' = [race EXCEPT
                       !.file.exists = (@ \/ o = "created"),
                       !.pc[p] = IF o = "error" THEN "error" ELSE "opened",
                       !.kind[p] = kind, !.n[p] = n, !.arg[p] = a]
        /\ RaceFrame

RaceSeek(p) ==
    /\ race.pc[p] = "opened"
    /\ race' = [race EXCEPT !.pc[p] = "sought", !.off[p] = Len(race.file.bytes)]
    /\ RaceFrame

RaceWrite(p, g) ==
    LET off == race.off[p]
        n   == race_size(p)
        buf == IF off < n THEN [x \in 1..(n - off) |-> g] ELSE <<>>
    IN  /\ race.pc[p] = "sought"
        /\ off >= n => g = 0
        /\ race' = [race EXCEPT
                       !.file.bytes = IF off < n THEN WriteAt(@, off, buf) ELSE @,
                       !.pc[p] = "sized",
                       !.init[p] = FromSizeT(resize_ret(ToSizeT(off), ToSizeT(n)))]
        /\ RaceFrame

RaceMap(p) ==
    /\ race.pc[p] = "sized"
    /\ race' = [race EXCEPT !.pc[p] = IF race_todo(p) = {} THEN "done" ELSE "mapped"]
    /\ RaceFrame

RaceConstruct(p) ==
    LET left == race_todo(p) \ race.built[p]
        e    == CHOOSE x \in left : \A y \in left : x <= y
    IN  /\ race.pc[p] = "mapped"
        /\ left # {}
        /\ race' = [race EXCEPT
                       !.file = StoreFile(@, {e}, T(race.arg[p])),
                       !.built[p] = @ \cup {e},
                       !.ctors[e] = Min(@ + 1, 2),
                       !.pc[p] = IF left = {e} THEN "done" ELSE "mapped"]
        /\ RaceFrame

NextRace ==
    \/ \E p \in Procs, kind \in {"object", "array"}, n \in 1..MaxCount, a \in Args :
          RaceOpen(p, kind, n, a)
    \/ \E p \in Procs : RaceSeek(p)
    \/ \E p \in Procs, g \in GarbageBytes : RaceWrite(p, g)
    \/ \E p \in Procs : RaceMap(p)
    \/ \E p \in Procs : RaceConstruct(p)

SpecRace == Init /\ [][NextRace]_vars

\* ================================================================ claims
Range(a, b) == { e \in Elems : a <= e /\ e < b }
Returned(op) == last.op = op /\ last.outcome = "ok"

(* C1: after a first open of object<T> on a fresh path has constructed T    *)
(* and returned, and after stores and the teardown of every handle, a       *)
(* reopen of the path with any arguments constructs nothing and the value   *)
(* seen through it is the one last constructed or stored.                   *)
C1_ReopenKeepsLastValue ==
    (Returned("object") /\ born.by = "object" /\ ~last.fresh /\ last.quiet)
        => (last.built = {} /\ ViewElem(0) = ShadowElem(0))

(* C2: a sized-mode open with count N2 on a file created by a sized-mode    *)
(* open that returned, and last filled with N1 < N2 elements, constructs    *)
(* exactly the elements [N1, N2) and leaves the bytes of [0, N1) as they    *)
(* were.                                                                     *)
C2_GrowthPreservesPrefix ==
    [][ (last'.op = "array" /\ last'.outcome = "ok" /\ born.by = "array"
           /\ born.n < last'.n)
          => /\ last'.built = Range(born.n, last'.n)
             /\ \A e \in Range(0, born.n) :
                   ViewElemOf(file', page', e) = ViewElem(e) ]_vars

(* C3: a sized-mode array<T>(N, P, a) on a path holding no file, with no    *)
(* fault of the environment, returns, has size() = N, and every element of  *)
(* [0, N) equals T(a); N = 0 included.                                      *)
C3_FreshSizedOpen ==
    (last.op = "array" /\ last.fresh /\ last.nominal)
        => /\ last.outcome = "ok"
           /\ h[last.hd].kind = "array"
           /\ h[last.hd].n = last.n
           /\ \A e \in Range(0, last.n) : ViewElem(e) = T(last.arg)

(* C4: a discovery-mode array<T> on an existing file of L bytes, L any      *)
(* size_t, has size() = L / sizeof(T), maps L bytes, has initialized() = L  *)
(* and runs no placement-construction.                                      *)
C4_DiscoveryCount ==
    big.st = "open"
        => /\ big.n = DivSizeT(big.len, SizeofT)
           /\ big.maplen = big.len
           /\ big.init = big.len
           /\ big.built = 0

(* C5: in a history without environment faults, for every array<T> handle   *)
(* and every index, operator[] throws when the index is >= size(), and      *)
(* otherwise yields element i of live memory, holding the value last        *)
(* constructed or stored at that index.                                     *)
C5_BoundsCheckedAccess ==
    faults = 0 =>
        \A i \in Handles : h[i].kind = "array" =>
            \A e \in 0..MaxCount :
                IF e >= h[i].n
                THEN array_index(h[i], e) = "throw"
                ELSE /\ array_index(h[i], e) = "element"
                     /\ Reaches(maps, file, h[i].po, e * SizeofT + 1)
                     /\ ViewElem(e) = ShadowElem(e)

(* C6, as claimed: after every move-construction and every move-assignment  *)
(* from another handle, whatever the target held, the source handle owns no *)
(* mapping and its teardown calls no ::munmap.                              *)
Moves == {"object_move", "array_move", "array_move_assign"}
C7_TeardownLeavesFile ==
    [][ last'.op = "destroy" => file' = file ]_vars

\* an object<T> holding a non-zero value has been torn down and unmapped
C7_Witness ==
    /\ last.op = "destroy"
    /\ last.unmap \in MapIds
    /\ born.by = "object"
    /\ Len(file.bytes) = SizeofT
    /\ \A k \in 1..SizeofT : file.bytes[k] \in Args

(* C8: an open with requested size 0 (discovery mode, or sized mode with a  *)
(* count of 0) of a path holding no file fails with the file-system error,  *)
(* creates no file and leaves no handle.                                    *)
C8_DiscoveryNeedsFile ==
    (last.op \in {"discover", "array"} /\ last.n = 0 /\ last.fresh)
        => /\ last.outcome = "error"
           /\ last.err = "P: persistent: P"
           /\ file = NoFile
           /\ h[last.hd].kind = "none"

C8_Witness == last.op = "discover" /\ last.fresh /\ last.nominal

(* C9: when ::mmap reports failure the constructor throws the mapping       *)
(* error with the path, and no handle holds the failed result as its        *)
(* mapping address.                                                         *)
C9_MapFailureRaises ==
    /\ \A i \in Handles : h[i].kind # "none" => h[i].map # MAP_FAILED
    /\ last.mapfail => last.outcome = "error" /\ last.err = "P: mmap"

(* C10: at every open of an object<T> or sized-mode array<T>, every element *)
(* below initialized()/sizeof(T) was placement-constructed by an earlier    *)
(* open, whatever happened to the earlier opens; and when the constructor   *)
(* returns, all N elements have been constructed.                           *)
C10_InitializedPrefixValid ==
    last.op \in {"object", "array"} /\ last.outcome \in {"ok", "throw", "crash"}
        => /\ \A e \in Elems : e < last.init \div SizeofT => ctors[e] >= 1
           /\ last.outcome = "ok" => \A e \in Range(0, last.n) : ctors[e] >= 1

(* C11: over the whole history of the path, whatever opens (object<T>,      *)
(* sized-mode array<T> with any counts, discovery mode) and teardowns have  *)
(* run, no element index has been placement-constructed more than once.     *)
C11_ConstructAtMostOnce ==
    \A e \in Elems : ctors[e] <= 1

(* C12: after an open that returned, the file is at least as long as the    *)
(* size that open requested, and at every moment at least as long as every  *)
(* live mapping over it; ::write may transfer fewer bytes than asked.       *)
C12_FileCoversRequests ==
    /\ (last.op \in {"object", "array"} /\ last.outcome = "ok")
          => Len(file.bytes) >= last.n * SizeofT
    /\ \A m \in MapIds : maps[m].live => Len(file.bytes) >= maps[m].len

\* the length of the mapping a handle owns: 0 when it owns none
OwnedLength(mp, hd) == IF hd.map \in MapIds /\ mp[hd.map].live THEN mp[hd.map].len ELSE 0

(* C13: after every step every handle (object<T>, array<T> of either mode,  *)
(* moved-from or move-assigned) has 0 <= initialized() <= the length of the *)
(* region it has mapped, and a sized-mode open that returns has             *)
(* initialized() = min(file length before the open, requested size).        *)
C13_InitializedWithinRegion ==
    [][ /\ \A i \in Handles : h'[i].kind # "none"
              => 0 <= h'[i].init /\ h'[i].init <= OwnedLength(maps', h'[i])
        /\ (last'.op \in {"object", "array"} /\ last'.outcome = "ok")
              => h'[last'.hd].init = Min(Len(file.bytes), last'.n * SizeofT) ]_vars

(* C14: when an open finds the file shorter than the size it requests and   *)
(* ::write reports no error, the file afterwards is exactly as long as      *)
(* requested, the bytes it held are unchanged, and every appended byte that *)
(* no placement-construction of this open has overwritten is zero.          *)
C14_ResizeAppendsZeros ==
    [][ (/\ last'.op \in {"object", "array"}
         /\ last'.outcome \in {"ok", "throw", "crash"}
         /\ Len(file.bytes) < last'.n * SizeofT)
          => /\ Len(file'.bytes) = last'.n * SizeofT
             /\ \A k \in 1..Len(file'.bytes) :
                   ElemOf(k) \notin last'.built
                      => file'.bytes[k] = IF k <= Len(file.bytes)
                                          THEN file.bytes[k] ELSE 0 ]_vars

(* C15: an open that needs no growth (discovery mode, or a requested size   *)
(* not larger than the file's length) leaves the file's existence, length   *)
(* and bytes as they were, and runs no placement-construction.              *)
C15_NoGrowthNoChange ==
    [][ (/\ last'.op \in {"object", "array", "discover"}
         /\ last'.n * SizeofT <= Len(file.bytes))
          => file' = file /\ last'.built = {} /\ ctors' = ctors ]_vars

\* a sized-mode array<T> has been opened with fewer elements than the file holds
C15_Witness ==
    /\ Returned("array")
    /\ last.n >= 1
    /\ last.n * SizeofT < Len(file.bytes)
    /\ last.init = last.n * SizeofT

(* C16: nothing in open or resize keeps two processes apart: neither open   *)
(* fails, each process that found the file empty at its seek-to-end has     *)
(* initialized() = 0 and, once done, has placement-constructed its whole    *)
(* range, and every element has been constructed once per such process;     *)
(* the state in which both have constructed element 0 is reachable.         *)
C16_NothingExcludesSecondConstruction ==
    /\ \A p \in Procs : race.pc[p] # "error"
    /\ \A p \in Procs :
          (race.pc[p] \in {"sized", "mapped", "done"} /\ race.off[p] = 0)
             => race.init[p] = 0
    /\ \A p \in Procs :
          (race.pc[p] = "done" /\ race.off[p] = 0)
             => race.built[p] = Range(0, race.n[p])
    /\ \A e \in Elems :
          race.ctors[e] = Cardinality({ p \in Procs : e \in race.built[p] })

\* both processes saw initialized() = 0 and both constructed element 0
C16_Witness ==
    /\ \A p \in Procs : race.pc[p] = "done" /\ race.init[p] = 0
    /\ 0 \in race.built[1] \cap race.built[2]
    /\ race.ctors[0] = 2

(* C17: every array<T> handle, however it came to its state (sized or       *)
(* discovery open, moved-from, move-constructed, either side of a           *)
(* move-assignment), has size() * sizeof(T) <= the length of the mapping it *)
(* owns, 0 when it owns none: every index operator[] lets through lies in   *)
(* memory the handle owns.                                                  *)
C17_ArrayWithinOwnedMapping ==
    \A i \in Handles : h[i].kind = "array"
        => /\ h[i].n * SizeofT <= OwnedLength(maps, h[i])
           /\ h[i].n > 0 => h[i].po = h[i].map

\* the handles that hold address m as their mapping
Owners(hs, m) == { i \in Handles : hs[i].kind # "none" /\ hs[i].map = m }

(* C18: every ::munmap is given the address and the length of a live        *)
(* mapping and ends exactly that one; a live mapping is owned by exactly    *)
(* one handle, so that it is unmapped once and not leaked when the handles  *)
(* are gone; no step but a teardown ends a mapping while its process runs.  *)
C18_UnmapExactlyOnce ==
    [][ /\ (last'.op \in {"destroy", "object", "array"} /\ last'.unmap # NULL)
              => /\ last'.unmap \in MapIds
                 /\ last'.op = "destroy"
                       => /\ maps[last'.unmap].live
                          /\ maps[last'.unmap].len = h[last'.hd].size
                          /\ ~maps'[last'.unmap].live
        /\ last'.outcome = "ok"
              => \A m \in MapIds : maps'[m].live <=> Cardinality(Owners(h', m)) = 1 ]_vars

(* C19: when a constructor of object<T> or array<T> exits, by returning or  *)
(* by throwing (::open, ::lseek, ::write or the mapping having failed), the *)
(* descriptor persistent::open obtained is closed, fd_guard closing what it *)
(* holds.                                                                   *)
C19_NoDescriptorOutlivesOpen ==
    last.op \in {"object", "array", "discover"} => last.fd \in {"none", "closed"}

====
